---- MODULE Spec2Model ----
(***************************************************************************)
(* Model of lambda_function.py, the Lex V2 code hook of the BookTrip bot:  *)
(* slot validation, pricing, the two intent handlers and the dispatcher.   *)
(*                                                                         *)
(* Python values are modelled as follows.                                  *)
(*   str    a sequence of character codes (so that lower(), ord() and the  *)
(*          date formats are computed, not assumed); the fixed protocol    *)
(*          words (intent names, slot names, dialog action types,          *)
(*          message texts) are TLA+ strings                                *)
(*   None   the record None                                                *)
(*   dict   a function from its keys (a record)                            *)
(*   date   its proleptic Gregorian ordinal, as datetime.date keeps it     *)
(*   raise  a call that raises returns the record Raise(exception)         *)
(***************************************************************************)
EXTENDS Integers, Sequences, FiniteSets, TLC

None == [none |-> TRUE]

Raise(exc) == [raised |-> exc]

IsRaise(r) == "raised" \in DOMAIN r

EmptyDict == [k \in {} |-> None]

\* d[k] = v on a dict.
DictSet(d, k, v) == [x \in (DOMAIN d) \cup {k} |-> IF x = k THEN v ELSE d[x]]

(***************************************************************************)
(* Strings                                                                 *)
(***************************************************************************)

\* str.lower() on one character (ASCII).
LowerChar(c) == IF c >= 65 /\ c <= 90 THEN c + 32 ELSE c

\* str.lower()
Lower(s) == [i \in 1..Len(s) |-> LowerChar(s[i])]

\* x in list
InList(x, list) == \E i \in 1..Len(list) : list[i] = x

\* list.index(x), 0-based, for an x that is in the list.
IndexOf(list, x) == (CHOOSE i \in 1..Len(list) : list[i] = x /\ \A j \in 1..(i - 1) : list[j] # x) - 1

IsDigit(c) == c >= 48 /\ c <= 57

AllDigits(s) == Len(s) > 0 /\ \A i \in 1..Len(s) : IsDigit(s[i])

RECURSIVE int(_)
\* int(n) for a string of decimal digits.
int(s) == IF Len(s) = 0 THEN 0 ELSE 10 * int(SubSeq(s, 1, Len(s) - 1)) + (s[Len(s)] - 48)

RECURSIVE Digits(_, _)
\* n written with exactly w decimal digits, zero padded (the %Y, %m, %d of strftime).
Digits(n, w) == IF w = 0 THEN <<>> ELSE Digits(n \div 10, w - 1) \o <<48 + (n % 10)>>

\* valid_cities of isvalid_city.
valid_cities ==
    << <<110, 117, 101, 118, 97, 32, 121, 111, 114, 107>>,  \* 'nueva york'
       <<108, 111, 115, 32, 97, 110, 103, 101, 108, 101, 115>>,  \* 'los angeles'
       <<99, 104, 105, 99, 97, 103, 111>>,  \* 'chicago'
       <<104, 111, 117, 115, 116, 111, 110>>,  \* 'houston'
       <<112, 104, 105, 108, 97, 100, 101, 108, 112, 104, 105, 97>>,  \* 'philadelphia'
       <<112, 104, 111, 101, 110, 105, 120>>,  \* 'phoenix'
       <<115, 97, 110, 32, 97, 110, 116, 111, 110, 105, 111>>,  \* 'san antonio'
       <<115, 97, 110, 32, 100, 105, 101, 103, 111>>,  \* 'san diego'
       <<100, 97, 108, 108, 97, 115>>,  \* 'dallas'
       <<115, 97, 110, 32, 106, 111, 115, 101>>,  \* 'san jose'
       <<97, 117, 115, 116, 105, 110>>,  \* 'austin'
       <<106, 97, 99, 107, 115, 111, 110, 118, 105, 108, 108, 101>>,  \* 'jacksonville'
       <<115, 97, 110, 32, 102, 114, 97, 110, 99, 105, 115, 99, 111>>,  \* 'san francisco'
       <<105, 110, 100, 105, 97, 110, 97, 112, 111, 108, 105, 115>>,  \* 'indianapolis'
       <<99, 111, 108, 117, 109, 98, 117, 115>>,  \* 'columbus'
       <<102, 111, 114, 116, 32, 119, 111, 114, 116, 104>>,  \* 'fort worth'
       <<99, 104, 97, 114, 108, 111, 116, 116, 101>>,  \* 'charlotte'
       <<100, 101, 116, 114, 111, 105, 116>>,  \* 'detroit'
       <<101, 108, 32, 112, 97, 115, 111>>,  \* 'el paso'
       <<115, 101, 97, 116, 116, 108, 101>>,  \* 'seattle'
       <<100, 101, 110, 118, 101, 114>>,  \* 'denver'
       <<119, 97, 115, 104, 105, 110, 103, 116, 111, 110, 32, 100, 99>>,  \* 'washington dc'
       <<109, 101, 109, 112, 104, 105, 115>>,  \* 'memphis'
       <<98, 111, 115, 116, 111, 110>>,  \* 'boston'
       <<110, 97, 115, 104, 118, 105, 108, 108, 101>>,  \* 'nashville'
       <<98, 97, 108, 116, 105, 109, 111, 114, 101>>,  \* 'baltimore'
       <<112, 111, 114, 116, 108, 97, 110, 100>> >>  \* 'portland'

\* room_types of isvalid_room_type and generate_hotel_price (the same list).
room_types ==
    << <<113, 117, 101, 101, 110>>,  \* 'queen'
       <<107, 105, 110, 103>>,  \* 'king'
       <<100, 101, 108, 117, 120, 101>> >>  \* 'deluxe'

\* car_types of generate_car_price: the six base types.
car_types ==
    << <<101, 99, 111, 110, 111, 109, 121>>,  \* 'economy'
       <<115, 116, 97, 110, 100, 97, 114, 100>>,  \* 'standard'
       <<109, 105, 100, 115, 105, 122, 101>>,  \* 'midsize'
       <<102, 117, 108, 108, 32, 115, 105, 122, 101>>,  \* 'full size'
       <<109, 105, 110, 105, 118, 97, 110>>,  \* 'minivan'
       <<108, 117, 120, 117, 114, 121>> >>  \* 'luxury'

\* car_types of isvalid_car_type: the base types and three Spanish synonyms.
valid_car_types ==
    << <<101, 99, 111, 110, 111, 109, 121>>,  \* 'economy'
       <<115, 116, 97, 110, 100, 97, 114, 100>>,  \* 'standard'
       <<109, 105, 100, 115, 105, 122, 101>>,  \* 'midsize'
       <<102, 117, 108, 108, 32, 115, 105, 122, 101>>,  \* 'full size'
       <<109, 105, 110, 105, 118, 97, 110>>,  \* 'minivan'
       <<108, 117, 120, 117, 114, 121>>,  \* 'luxury'
       <<101, 99, 111, 110, 111, 109, 105, 99, 111>>,  \* 'economico'
       <<109, 101, 100, 105, 97, 110, 111>>,  \* 'mediano'
       <<108, 117, 106, 111>> >>  \* 'lujo'

(***************************************************************************)
(* Dates: datetime.date, dateutil.parser.parse, strptime, strftime         *)
(***************************************************************************)

_is_leap(y) == y % 4 = 0 /\ (y % 100 # 0 \/ y % 400 = 0)

_DAYS_IN_MONTH == <<31, 28, 31, 30, 31, 30, 31, 31, 30, 31, 30, 31>>

_DAYS_BEFORE_MONTH == <<0, 31, 59, 90, 120, 151, 181, 212, 243, 273, 304, 334>>

_days_in_month(y, m) == IF m = 2 /\ _is_leap(y) THEN 29 ELSE _DAYS_IN_MONTH[m]

_days_before_year(y) == (y - 1) * 365 + (y - 1) \div 4 - (y - 1) \div 100 + (y - 1) \div 400

_days_before_month(y, m) == _DAYS_BEFORE_MONTH[m] + (IF m > 2 /\ _is_leap(y) THEN 1 ELSE 0)

\* date(y, m, d).toordinal()
_ymd2ord(y, m, d) == _days_before_year(y) + _days_before_month(y, m) + d

\* date.fromordinal(n) as <<year, month, day>>.
_ord2ymd(ord) ==
    LET n0 == ord - 1
        n400 == n0 \div 146097
        r400 == n0 % 146097
        n100 == r400 \div 36524
        r100 == r400 % 36524
        n4 == r100 \div 1461
        r4 == r100 % 1461
        n1 == r4 \div 365
        n == r4 % 365
        year == n400 * 400 + 1 + n100 * 100 + n4 * 4 + n1
        leapyear == n1 = 3 /\ (n4 # 24 \/ n100 = 3)
        month0 == (n + 50) \div 32
        preceding0 == _DAYS_BEFORE_MONTH[month0] + (IF month0 > 2 /\ leapyear THEN 1 ELSE 0)
        month == IF preceding0 > n THEN month0 - 1 ELSE month0
        preceding == IF preceding0 > n
                     THEN preceding0 - (_DAYS_IN_MONTH[month] + (IF month = 2 /\ leapyear THEN 1 ELSE 0))
                     ELSE preceding0
    IN  IF n1 = 4 \/ n100 = 4 THEN <<year - 1, 12, 31>> ELSE <<year, month, n - preceding + 1>>

\* A year, month, day that make a date.
ValidYmd(y, m, d) == y >= 1 /\ m >= 1 /\ m <= 12 /\ d >= 1 /\ d <= _days_in_month(y, m)

\* The text is of the form YYYY-MM-DD (zero padded, the form of a Lex date value).
IsIsoForm(s) ==
    /\ Len(s) = 10
    /\ s[5] = 45 /\ s[8] = 45
    /\ \A i \in {1, 2, 3, 4, 6, 7, 9, 10} : IsDigit(s[i])

\* The text is of the form MM/DD/YYYY.
IsUsForm(s) ==
    /\ Len(s) = 10
    /\ s[3] = 47 /\ s[6] = 47
    /\ \A i \in {1, 2, 4, 5, 7, 8, 9, 10} : IsDigit(s[i])

\* datetime.strptime(s, '%Y-%m-%d') succeeds; otherwise it raises ValueError.
strptime_ok(s) ==
    /\ IsIsoForm(s)
    /\ ValidYmd(int(SubSeq(s, 1, 4)), int(SubSeq(s, 6, 7)), int(SubSeq(s, 9, 10)))

\* datetime.strptime(s, '%Y-%m-%d').date()
strptime_date(s) == _ymd2ord(int(SubSeq(s, 1, 4)), int(SubSeq(s, 6, 7)), int(SubSeq(s, 9, 10)))

\* dateutil.parser.parse(s) succeeds; otherwise it raises ValueError.  Of the
\* forms dateutil reads, the two that the turns below use are modelled.
parse_ok(s) ==
    \/ strptime_ok(s)
    \/ /\ IsUsForm(s)
       /\ ValidYmd(int(SubSeq(s, 7, 10)), int(SubSeq(s, 1, 2)), int(SubSeq(s, 4, 5)))

\* dateutil.parser.parse(s).date()
parse_date(s) ==
    IF IsIsoForm(s)
    THEN strptime_date(s)
    ELSE _ymd2ord(int(SubSeq(s, 7, 10)), int(SubSeq(s, 1, 2)), int(SubSeq(s, 4, 5)))

\* date.strftime('%Y-%m-%d')
strftime(ord) ==
    LET ymd == _ord2ymd(ord)
    IN  Digits(ymd[1], 4) \o <<45>> \o Digits(ymd[2], 2) \o <<45>> \o Digits(ymd[3], 2)

\* A date written MM/DD/YYYY, a form dateutil reads and '%Y-%m-%d' does not.
UsText(ord) ==
    LET ymd == _ord2ymd(ord)
    IN  Digits(ymd[2], 2) \o <<47>> \o Digits(ymd[3], 2) \o <<47>> \o Digits(ymd[1], 4)

(***************************************************************************)
(* Helper functions                                                        *)
(***************************************************************************)

\* safe_int is applied to digit strings only; the None it passes through is
\* tested by the callers on the value before the conversion.
safe_int(n) == int(n)

try_ex(value) == IF value # None THEN value.value.interpretedValue ELSE None

\* Every car type is taken.
isvalid_car_type_any(car_type) == TRUE

isvalid_car_type(car_type) == InList(Lower(car_type), valid_car_types)

isvalid_city(city) == InList(Lower(city), valid_cities)

\* Every room type is taken.
isvalid_room_type_any(room_type) == TRUE

isvalid_room_type(room_type) == InList(Lower(room_type), room_types)

isvalid_date(date) == parse_ok(date)

Abs(n) == IF n < 0 THEN 0 - n ELSE n

\* Both dates parse (the callers' case); otherwise parse raises ValueError.
get_day_difference(later_date, earlier_date) == Abs(parse_date(later_date) - parse_date(earlier_date))

\* The days are not added.
add_days_none(date, number_of_days) == strftime(parse_date(date))

add_days(date, number_of_days) == strftime(parse_date(date) + number_of_days)

build_validation_result(isvalid, violated_slot, message_content) ==
    [isValid |-> isvalid, violatedSlot |-> violated_slot, message |-> message_content]

\* str.format of a message with one argument.
Format(template, arg) == [template |-> template, arg |-> arg]

\* try_ex(slots[name]) is not None.  try_ex returns None exactly for a slot
\* that is None, and the test is made on the slot: a str and None are values
\* of different kinds.
Present(slots, name) == slots[name] # None

\* Truthiness of try_ex(slots[name]), a str or None: None and '' are false.
Truthy(slots, name) == Present(slots, name) /\ Len(try_ex(slots[name])) > 0

(***************************************************************************)
(* Pricing                                                                 *)
(***************************************************************************)

RECURSIVE LocationCost(_, _)
\* The loop of both price functions: the sum of ord(location.lower()[i]) - 97
\* over the first n characters.
LocationCost(location, n) ==
    IF n = 0 THEN 0 ELSE LocationCost(location, n - 1) + (Lower(location)[n] - 97)

\* The car type whose rank generate_car_price looks up: a type that is not
\* literally in car_types is replaced by car_types[0] before lower() is applied.
PricedCarType(car_type) == IF ~InList(car_type, car_types) THEN car_types[1] ELSE car_type

\* age_multiplier is 1.10 under 25 and 1 otherwise; it is kept in tenths, and
\* the product (rank * 50) * age_multiplier is the exact one (a whole number,
\* which the float of the program approximates).
generate_car_price(location, days, age, car_type) ==
    LET base_location_cost == LocationCost(location, Len(location))
        age_multiplier_tenths == IF age < 25 THEN 11 ELSE 10
        rank == IndexOf(car_types, Lower(PricedCarType(car_type)))
    IN  days * ((100 + base_location_cost) + ((rank * 50) * age_multiplier_tenths) \div 10)

\* room_types.index(room_type.lower()) finds the type; otherwise it raises ValueError.
generate_hotel_price_ok(room_type) == InList(Lower(room_type), room_types)

generate_hotel_price(location, nights, room_type) ==
    LET cost_of_living == LocationCost(location, Len(location))
    IN  nights * (100 + cost_of_living + (100 + IndexOf(room_types, Lower(room_type))))

(***************************************************************************)
(* Slot-set validators.  today is datetime.date.today().                   *)
(***************************************************************************)

\* The date is today or earlier, with < written for <=.
NotInAdvance_strict(date, today) == strptime_date(date) < today

\* datetime.datetime.strptime(date, '%Y-%m-%d').date() <= datetime.date.today()
NotInAdvance(date, today) == strptime_date(date) <= today

\* The comparison of the two dates with > written for >=.
ReturnNotAfterPickUp_strict(pickup_date, return_date) == parse_date(pickup_date) > parse_date(return_date)

\* dateutil.parser.parse(pickup_date) >= dateutil.parser.parse(return_date)
ReturnNotAfterPickUp(pickup_date, return_date) == parse_date(pickup_date) >= parse_date(return_date)

\* The age limit with 17 written for 18.
TooYoung_17(driver_age) == driver_age < 17

\* driver_age < 18
TooYoung(driver_age) == driver_age < 18

CarSlotNames == {"PickUpCity", "PickUpDate", "ReturnDate", "DriverAge", "CarType"}

HotelSlotNames == {"Location", "CheckInDate", "Nights", "RoomType"}

validate_book_car(slots, today) ==
    IF ~(CarSlotNames \subseteq DOMAIN slots) THEN Raise("KeyError")
    ELSE
    LET pickup_city == try_ex(slots["PickUpCity"])
        pickup_date == try_ex(slots["PickUpDate"])
        return_date == try_ex(slots["ReturnDate"])
        driver_age_text == try_ex(slots["DriverAge"])
        car_type == try_ex(slots["CarType"])
    IN  IF Present(slots, "DriverAge") /\ ~AllDigits(driver_age_text) THEN Raise("ValueError")
        ELSE IF Truthy(slots, "PickUpCity") /\ ~isvalid_city(pickup_city)
        THEN build_validation_result(FALSE, "PickUpCity",
                 Format("We currently do not support {} as a valid destination.  Can you try a different city?", pickup_city))
        ELSE IF ~Truthy(slots, "PickUpDate")
        THEN build_validation_result(FALSE, "PickUpDate", "Elicit PickUpDate")
        ELSE IF ~isvalid_date(pickup_date)
        THEN build_validation_result(FALSE, "PickUpDate",
                 "I did not understand your departure date.  When would you like to pick up your car rental?")
        ELSE IF ~strptime_ok(pickup_date) THEN Raise("ValueError")
        ELSE IF NotInAdvance(pickup_date, today)
        THEN build_validation_result(FALSE, "PickUpDate",
                 "Reservations must be scheduled at least one day in advance.  Can you try a different date?")
        ELSE IF ~Truthy(slots, "ReturnDate")
        THEN build_validation_result(FALSE, "ReturnDate", "Elicit ReturnDate")
        ELSE IF ~isvalid_date(return_date)
        THEN build_validation_result(FALSE, "ReturnDate",
                 "I did not understand your return date.  When would you like to return your car rental?")
        ELSE IF ReturnNotAfterPickUp(pickup_date, return_date)
        THEN build_validation_result(FALSE, "ReturnDate",
                 "Your return date must be after your pick up date.  Can you try a different return date?")
        ELSE IF get_day_difference(pickup_date, return_date) > 30
        THEN build_validation_result(FALSE, "ReturnDate",
                 "You can reserve a car for up to thirty days.  Can you try a different return date?")
        ELSE IF ~Present(slots, "DriverAge")
        THEN build_validation_result(FALSE, "DriverAge", "Elicit DriverAge")
        ELSE IF TooYoung(safe_int(driver_age_text))
        THEN build_validation_result(FALSE, "DriverAge",
                 "Your driver must be at least eighteen to rent a car.  Can you provide the age of a different driver?")
        ELSE IF ~Truthy(slots, "CarType")
        THEN build_validation_result(FALSE, "CarType", "Elicit CarType")
        ELSE IF ~isvalid_car_type(car_type)
        THEN build_validation_result(FALSE, "CarType",
                 "I did not recognize that model.  What type of car would you like to rent?  Popular cars are economy, midsize, or luxury")
        ELSE [isValid |-> TRUE]

validate_hotel(slots, today) ==
    IF ~(HotelSlotNames \subseteq DOMAIN slots) THEN Raise("KeyError")
    ELSE
    LET location == try_ex(slots["Location"])
        checkin_date == try_ex(slots["CheckInDate"])
        nights_text == try_ex(slots["Nights"])
        room_type == try_ex(slots["RoomType"])
    IN  IF Present(slots, "Nights") /\ ~AllDigits(nights_text) THEN Raise("ValueError")
        ELSE IF Present(slots, "Location") /\ ~isvalid_city(location)
        THEN build_validation_result(FALSE, "Location",
                 Format("We currently do not support {} as a valid destination.  Can you try a different city?", location))
        ELSE IF ~Present(slots, "CheckInDate")
        THEN build_validation_result(FALSE, "CheckInDate", "Elicit CheckInDate")
        ELSE IF ~isvalid_date(checkin_date)
        THEN build_validation_result(FALSE, "CheckInDate",
                 "I did not understand your check in date.  When would you like to check in?")
        ELSE IF ~strptime_ok(checkin_date) THEN Raise("ValueError")
        ELSE IF NotInAdvance(checkin_date, today)
        THEN build_validation_result(FALSE, "CheckInDate",
                 "Reservations must be scheduled at least one day in advance.  Can you try a different date?")
        ELSE IF ~Present(slots, "Nights")
        THEN build_validation_result(FALSE, "Nights", "Elicit Nights")
        ELSE IF safe_int(nights_text) < 1 \/ safe_int(nights_text) > 30
        THEN build_validation_result(FALSE, "Nights",
                 "You can make a reservations from one to thirty nights.  How many nights would you like to stay for?")
        ELSE IF ~Present(slots, "RoomType")
        THEN build_validation_result(FALSE, "RoomType", "Elicit RoomType")
        ELSE IF ~isvalid_room_type(room_type)
        THEN build_validation_result(FALSE, "RoomType",
                 "I did not recognize that room type.  Would you like to stay in a queen, king, or deluxe room?")
        ELSE [isValid |-> TRUE]

(***************************************************************************)
(* Helpers that build the responses                                        *)
(***************************************************************************)

\* The context every builder but confirm_intent returns.
IntentContext(active_contexts) ==
    [name |-> "intentContext",
     contextAttributes |-> active_contexts,
     timeToLive |-> [timeToLiveInSeconds |-> 600, turnsToLive |-> 1]]

elicit_slot(session_attributes, active_contexts, intent, slot_to_elicit, message) ==
    [sessionState |->
        [activeContexts |-> <<IntentContext(active_contexts)>>,
         sessionAttributes |-> session_attributes,
         dialogAction |-> [type |-> "ElicitSlot", slotToElicit |-> slot_to_elicit],
         intent |-> intent]]

confirm_intent(active_contexts, session_attributes, intent, message) ==
    [sessionState |->
        [activeContexts |-> <<active_contexts>>,
         sessionAttributes |-> session_attributes,
         dialogAction |-> [type |-> "ConfirmIntent"],
         intent |-> intent]]

close(session_attributes, active_contexts, fulfillment_state, intent, message) ==
    [sessionState |->
        [activeContexts |-> <<IntentContext(active_contexts)>>,
         sessionAttributes |-> session_attributes,
         dialogAction |-> [type |-> "Close"],
         intent |-> intent],
     messages |-> <<[contentType |-> "PlainText", content |-> message]>>]

delegate(session_attributes, active_contexts, intent, message) ==
    [sessionState |->
        [activeContexts |-> <<IntentContext(active_contexts)>>,
         sessionAttributes |-> session_attributes,
         dialogAction |-> [type |-> "Delegate"],
         intent |-> intent],
     messages |-> <<[contentType |-> "PlainText", content |-> message]>>]

initial_message(intent_name) ==
    [sessionState |->
        [dialogAction |-> [type |-> "ElicitSlot",
                           slotToElicit |-> IF intent_name = "BookHotel" THEN "Location" ELSE "PickUpCity"],
         intent |-> [confirmationState |-> "None", name |-> intent_name, state |-> "InProgress"]]]

(***************************************************************************)
(* Functions that control the bot's behavior                               *)
(***************************************************************************)

\* The violated slot is left as it was.
ClearSlot_kept(intent, violated_slot) == intent

\* slots[validation_result['violatedSlot']] = None, where slots is the dict
\* of the intent: the slot is cleared in the intent that is returned.
ClearSlot(intent, violated_slot) == [intent EXCEPT !.slots = DictSet(intent.slots, violated_slot, None)]

\* The price is computed and not kept.
StorePrice_dropped(session_attributes, price) == session_attributes

\* The price is kept under another key.
StorePrice_misnamed(session_attributes, price) == DictSet(session_attributes, "reservationPrice", price)

\* session_attributes['currentReservationPrice'] = price
StorePrice(session_attributes, price) == DictSet(session_attributes, "currentReservationPrice", price)

\* Only the confirmation state is set.
Fulfill_unfinished(intent) == [intent EXCEPT !.confirmationState = "Confirmed"]

\* intent['confirmationState'] = "Confirmed"; intent['state'] = "Fulfilled"
Fulfill(intent) == [intent EXCEPT !.confirmationState = "Confirmed", !.state = "Fulfilled"]

\* A function that falls off its end returns None.
book_hotel(intent_request, today) ==
    LET intent == intent_request.sessionState.intent
        session_attributes == DictSet(EmptyDict, "sessionId", intent_request.sessionId)
        confirmation_status == intent.confirmationState
        validation_result == validate_hotel(intent.slots, today)
    IN  IF IsRaise(validation_result) THEN validation_result
        ELSE IF ~validation_result.isValid
        THEN elicit_slot(session_attributes, EmptyDict,
                         ClearSlot(intent, validation_result.violatedSlot),
                         validation_result.violatedSlot, validation_result.message)
        ELSE
        LET location == try_ex(intent.slots["Location"])
            checkin_date == try_ex(intent.slots["CheckInDate"])
            nights_text == try_ex(intent.slots["Nights"])
            room_type == try_ex(intent.slots["RoomType"])
        IN  IF Truthy(intent.slots, "Location") /\ Truthy(intent.slots, "CheckInDate")
               /\ Present(intent.slots, "Nights") /\ safe_int(nights_text) # 0
               /\ Truthy(intent.slots, "RoomType")
            THEN
            LET nights == safe_int(nights_text)
                active_contexts == [ReservationType |-> "Hotel", Location |-> location,
                                    RoomType |-> room_type, CheckInDate |-> checkin_date, Nights |-> nights]
            IN  IF ~generate_hotel_price_ok(room_type) THEN Raise("ValueError")
                ELSE
                LET price == generate_hotel_price(location, nights, room_type)
                    priced_attributes == StorePrice(session_attributes, price)
                IN  IF confirmation_status = "None"
                    THEN delegate(priced_attributes, active_contexts, intent, "Confirm hotel reservation")
                    ELSE IF confirmation_status = "Confirmed"
                    THEN close(priced_attributes, active_contexts, "Fulfilled",
                               Fulfill(intent),
                               "Tu reservacion de hotel ha quedado registrada. Te puedo ayudar con algo mas?")
                    ELSE None
            ELSE None

book_car(intent_request, today) ==
    LET intent == intent_request.sessionState.intent
        slots == intent.slots
    IN  IF ~(CarSlotNames \subseteq DOMAIN slots) THEN Raise("KeyError")
        ELSE
        LET pickup_city == try_ex(slots["PickUpCity"])
            pickup_date == try_ex(slots["PickUpDate"])
            return_date == try_ex(slots["ReturnDate"])
            driver_age == try_ex(slots["DriverAge"])
            car_type == try_ex(slots["CarType"])
            confirmation_status == intent.confirmationState
            session_attributes == intent_request.sessionState.sessionAttributes
            validation_result ==
                IF intent_request.invocationSource = "DialogCodeHook"
                THEN validate_book_car(slots, today)
                ELSE [isValid |-> TRUE]
        IN  IF IsRaise(validation_result) THEN validation_result
            ELSE IF ~validation_result.isValid
            THEN IF validation_result.violatedSlot = "DriverAge" /\ confirmation_status = "Denied"
                 THEN \* intent['slots'] is rebound to {}; the slot is then cleared in the old dict
                      elicit_slot(session_attributes, EmptyDict, [intent EXCEPT !.slots = EmptyDict],
                                  "PickUpCity", validation_result.message)
                 ELSE elicit_slot(session_attributes, EmptyDict,
                                  ClearSlot(intent, validation_result.violatedSlot),
                                  validation_result.violatedSlot, validation_result.message)
            ELSE IF Truthy(slots, "PickUpCity") /\ Truthy(slots, "PickUpDate") /\ Truthy(slots, "ReturnDate")
                    /\ Truthy(slots, "DriverAge") /\ Truthy(slots, "CarType")
            THEN IF ~parse_ok(pickup_date) \/ ~parse_ok(return_date) \/ ~AllDigits(driver_age)
                 THEN Raise("ValueError")
                 ELSE
                 LET price == generate_car_price(pickup_city, get_day_difference(pickup_date, return_date),
                                                 safe_int(driver_age), car_type)
                     priced_attributes == StorePrice(session_attributes, price)
                 IN  IF confirmation_status = "Denied"
                     THEN delegate(priced_attributes, EmptyDict, intent, "Confirm hotel reservation")
                     ELSE IF confirmation_status = "None"
                     THEN delegate(priced_attributes, EmptyDict, intent, "Confirm hotel reservation")
                     ELSE IF confirmation_status = "Confirmed"
                     THEN close(priced_attributes, EmptyDict, "Fulfilled",
                                Fulfill(intent),
                                "Listo, tu reservacion esta completa. Ha sido un placer ayudarte. :D")
                     ELSE None
            ELSE None

(***************************************************************************)
(* Intents                                                                 *)
(***************************************************************************)

\* A slot as Lex sends it and as dispatch builds it.
Slot(v) == [shape |-> "Scalar",
            value |-> [interpretedValue |-> v, originalValue |-> v, resolvedValues |-> <<v>>]]

dispatch(intent_request, today) ==
    LET slots == intent_request.sessionState.intent.slots
        location == IF "Location" \in DOMAIN slots THEN slots["Location"] ELSE None
        pickup_city == IF "PickUpCity" \in DOMAIN slots THEN slots["PickUpCity"] ELSE None
        intent_name == intent_request.sessionState.intent.name
    IN  IF location # None \/ pickup_city # None
        THEN IF intent_name = "BookHotel" THEN book_hotel(intent_request, today)
             ELSE IF intent_name = "BookCar" THEN book_car(intent_request, today)
             ELSE Raise("Exception")
        ELSE IF Len(intent_request.sessionState.activeContexts) > 0
        THEN LET active_contexts == intent_request.sessionState.activeContexts[1]
                 session_attributes == intent_request.sessionState.sessionAttributes
                 intent == intent_request.sessionState.intent
                 attrs == active_contexts.contextAttributes
             IN  IF ~({"CheckInDate", "Nights"} \subseteq DOMAIN attrs) THEN Raise("KeyError")
                 ELSE IF ~AllDigits(attrs["Nights"]) \/ ~parse_ok(attrs["CheckInDate"]) THEN Raise("ValueError")
                 ELSE IF "Location" \notin DOMAIN attrs THEN Raise("KeyError")
                 ELSE
                 LET checkin_date == attrs["CheckInDate"]
                     return_date == add_days(checkin_date, safe_int(attrs["Nights"]))
                 IN  confirm_intent([active_contexts EXCEPT !.timeToLive.turnsToLive = 20],
                                    session_attributes,
                                    [intent EXCEPT !.slots = [PickUpCity |-> Slot(attrs["Location"]),
                                                              PickUpDate |-> Slot(checkin_date),
                                                              ReturnDate |-> Slot(return_date)]],
                                    "Indicame si la reservacion de auto es para {PickUpCity}, empezando {PickUpDate} y terminando {ReturnDate}")
        ELSE initial_message(intent_name)

\* The timezone set by lambda_handler decides which day today is.
lambda_handler(event, today) == dispatch(event, today)

(***************************************************************************)
(* The turns the platform sends                                            *)
(***************************************************************************)

\* Dates of the turns reach from yesterday to MaxAhead days after today.
MaxAhead == 1

\* Days on which the hook runs: before a leap day and before a new year.
Todays == {_ymd2ord(2024, 2, 27), _ymd2ord(2023, 12, 30)}

\* 'soon': a text no date parser reads.
Unparsable == <<115, 111, 111, 110>>

Chicago == <<67, 104, 105, 99, 97, 103, 111>>

Boston == <<66, 111, 115, 116, 111, 110>>

Paris == <<80, 97, 114, 105, 115>>

\* Numbers as Lex sends them: decimal digits.
Num(n) == IF n < 10 THEN Digits(n, 1) ELSE Digits(n, 2)

\* A slot that is not filled is None.
Slots(values) == {None} \cup {Slot(v) : v \in values}

CityInputs == {Chicago, Paris}

CheckInInputs(t) == {strftime(t + k) : k \in (0 - 1)..MaxAhead} \cup {UsText(t + 1), Unparsable}

NightsInputs == {Num(0), Num(1), Num(3), Num(30), Num(31)}

\* 'King', 'queen', 'suite'
RoomTypeInputs == {<<75, 105, 110, 103>>, <<113, 117, 101, 101, 110>>, <<115, 117, 105, 116, 101>>}

PickUpInputs(t) == {strftime(t + k) : k \in 0..MaxAhead} \cup {UsText(t + 1), Unparsable}

ReturnInputs(t) ==
    {strftime(t + k) : k \in (0..(MaxAhead + 1)) \cup {31, 32}} \cup {UsText(t + 2), Unparsable}

AgeInputs == {Num(17), Num(24), Num(30)}

\* 'luxury', 'Luxury', 'lujo', 'suv'
CarTypeInputs == {<<108, 117, 120, 117, 114, 121>>, <<76, 117, 120, 117, 114, 121>>,
                  <<108, 117, 106, 111>>, <<115, 117, 118>>}

HotelSlotSets(t) ==
    [Location : Slots(CityInputs), CheckInDate : Slots(CheckInInputs(t)),
     Nights : Slots(NightsInputs), RoomType : Slots(RoomTypeInputs)]

CarSlotSets(t) ==
    [PickUpCity : Slots(CityInputs), PickUpDate : Slots(PickUpInputs(t)),
     ReturnDate : Slots(ReturnInputs(t)), DriverAge : Slots(AgeInputs), CarType : Slots(CarTypeInputs)]

\* The context a hotel booking leaves behind (book_hotel), and the one every
\* other response leaves behind (no attributes).
ContextInputs(t) ==
    {IntentContext([ReservationType |-> "Hotel", Location |-> Boston, RoomType |-> <<75, 105, 110, 103>>,
                    CheckInDate |-> strftime(t + 1), Nights |-> Num(4)]),
     IntentContext(EmptyDict)}

ActiveContextsInputs(t) == {<<>>} \cup {<<c>> : c \in ContextInputs(t)}

SessionAttributesInputs == {EmptyDict, [currentReservationPrice |-> 999]}

Request(source, name, confirmation, slots, contexts, attributes) ==
    [sessionId |-> "session",
     invocationSource |-> source,
     sessionState |-> [intent |-> [name |-> name, confirmationState |-> confirmation,
                                   state |-> "InProgress", slots |-> slots],
                       activeContexts |-> contexts,
                       sessionAttributes |-> attributes]]

\* Slots of an intent the hook does not know: none, or its own slots, which
\* may bear the names the dispatcher looks at.
OtherSlotSets ==
    {EmptyDict} \cup [Location : Slots({Chicago})] \cup [PickUpCity : Slots({Chicago})]

Sources == {"DialogCodeHook", "FulfillmentCodeHook"}

ConfirmationStates == {"None", "Confirmed", "Denied"}

(***************************************************************************)
(* The state machine: one call of one function on one turn                 *)
(***************************************************************************)

VARIABLES request, today, pc, response

vars == <<request, today, pc, response>>

\* The platform sends a turn of the intent name with slots of slotSets.
Turn(name, slotSets) ==
    \E source \in Sources, confirmation \in ConfirmationStates, slots \in slotSets,
       contexts \in ActiveContextsInputs(today), attributes \in SessionAttributesInputs :
        request = Request(source, name, confirmation, slots, contexts, attributes)

\* A turn of an intent with its own slots, or of an intent the hook does not know.
Init ==
    /\ today \in Todays
    /\ \/ Turn("BookHotel", HotelSlotSets(today))
       \/ Turn("BookCar", CarSlotSets(today))
       \/ Turn("FallbackIntent", OtherSlotSets)
    /\ pc = "start"
    /\ response = None

LambdaHandler ==
    /\ pc = "start"
    /\ response' = lambda_handler(request, today)
    /\ pc' = "lambda_handler"
    /\ UNCHANGED <<request, today>>

\* The functions called on their own, as a unit test calls them.
BookHotel ==
    /\ pc = "start"
    /\ request.sessionState.intent.name = "BookHotel"
    /\ response' = book_hotel(request, today)
    /\ pc' = "book_hotel"
    /\ UNCHANGED <<request, today>>

BookCar ==
    /\ pc = "start"
    /\ request.sessionState.intent.name = "BookCar"
    /\ response' = book_car(request, today)
    /\ pc' = "book_car"
    /\ UNCHANGED <<request, today>>

ValidateHotel ==
    /\ pc = "start"
    /\ request.sessionState.intent.name = "BookHotel"
    /\ response' = validate_hotel(request.sessionState.intent.slots, today)
    /\ pc' = "validate_hotel"
    /\ UNCHANGED <<request, today>>

ValidateBookCar ==
    /\ pc = "start"
    /\ request.sessionState.intent.name = "BookCar"
    /\ response' = validate_book_car(request.sessionState.intent.slots, today)
    /\ pc' = "validate_book_car"
    /\ UNCHANGED <<request, today>>

Next == LambdaHandler \/ BookHotel \/ BookCar \/ ValidateHotel \/ ValidateBookCar

Spec == Init /\ [][Next]_vars

(***************************************************************************)
(* Properties                                                              *)
(***************************************************************************)

ReqIntent == request.sessionState.intent

ReqSlots == ReqIntent.slots

\* The value of a slot of the turn.
Val(name) == try_ex(ReqSlots[name])

AllPresent(names) == \A n \in names : Truthy(ReqSlots, n)

Accepted(result) == ~IsRaise(result) /\ result.isValid

Rejected(result) == ~IsRaise(result) /\ ~result.isValid

\* The call returned a directive (not None, and it did not raise).
IsDirective(r) == "sessionState" \in DOMAIN r

Directive(r, type) == IsDirective(r) /\ r.sessionState.dialogAction.type = type

Elicits(r, slot) == Directive(r, "ElicitSlot") /\ r.sessionState.dialogAction.slotToElicit = slot

HasPrice(r, price) ==
    /\ "currentReservationPrice" \in DOMAIN r.sessionState.sessionAttributes
    /\ r.sessionState.sessionAttributes["currentReservationPrice"] = price

King == <<75, 105, 110, 103>>

HotelValid == AllPresent(HotelSlotNames) /\ Accepted(validate_hotel(ReqSlots, today))

CarValid == AllPresent(CarSlotNames) /\ Accepted(validate_book_car(ReqSlots, today))

\* C1: book_hotel on a turn whose four slots are present and accepted by
\* validate_hotel, with confirmationState 'None', returns Delegate with
\* sessionAttributes.currentReservationPrice = generate_hotel_price(Location,
\* Nights, RoomType); for Chicago, 3 nights, King that price is 720.
C1_HotelDelegateCarriesPrice ==
    (pc = "book_hotel" /\ HotelValid /\ ReqIntent.confirmationState = "None") =>
        /\ Directive(response, "Delegate")
        /\ HasPrice(response, generate_hotel_price(Val("Location"), safe_int(Val("Nights")), Val("RoomType")))
        /\ (Val("Location") = Chicago /\ Val("Nights") = Num(3) /\ Val("RoomType") = King)
              => HasPrice(response, 720)

C1_Witness ==
    /\ pc = "book_hotel" /\ HotelValid /\ ReqIntent.confirmationState = "None"
    /\ Val("Location") = Chicago /\ Val("Nights") = Num(3) /\ Val("RoomType") = King
    /\ Directive(response, "Delegate") /\ HasPrice(response, 720)

\* C2: in book_hotel and in book_car, a turn whose required slots are all
\* present and accepted by the validator, with confirmationState 'Confirmed',
\* returns Close with the intent Confirmed and Fulfilled.
C2_ConfirmedCloses ==
    (/\ ReqIntent.confirmationState = "Confirmed"
     /\ \/ pc = "book_hotel" /\ HotelValid
        \/ pc = "book_car" /\ CarValid) =>
        /\ Directive(response, "Close")
        /\ response.sessionState.intent.confirmationState = "Confirmed"
        /\ response.sessionState.intent.state = "Fulfilled"

C2_Witness ==
    /\ pc = "book_car" /\ CarValid /\ ReqIntent.confirmationState = "Confirmed"
    /\ request.invocationSource = "DialogCodeHook"
    /\ Directive(response, "Close")
    /\ response.sessionState.intent.state = "Fulfilled"

\* C3: book_hotel on a slot set that validate_hotel rejects returns ElicitSlot
\* for the slot the validator reports, whatever the confirmationState, and that
\* slot is None in the intent it returns.
C3_RejectedHotelElicits ==
    (pc = "book_hotel" /\ Rejected(validate_hotel(ReqSlots, today))) =>
        LET violated == validate_hotel(ReqSlots, today).violatedSlot
        IN  /\ Elicits(response, violated)
            /\ response.sessionState.intent.slots[violated] = None

\* A slot that held a value (a past check-in date) is the one cleared.
C3_Witness ==
    /\ pc = "book_hotel" /\ Rejected(validate_hotel(ReqSlots, today))
    /\ ReqIntent.confirmationState = "Confirmed"
    /\ Present(ReqSlots, "CheckInDate") /\ Val("CheckInDate") = strftime(today)
    /\ Elicits(response, "CheckInDate")
    /\ response.sessionState.intent.slots["CheckInDate"] = None

\* The check-in date of the turn reads as a date that is today or earlier.
CheckInNotAfterToday ==
    /\ Present(ReqSlots, "CheckInDate")
    /\ parse_ok(Val("CheckInDate"))
    /\ parse_date(Val("CheckInDate")) <= today

\* C4 as stated: validate_hotel reports CheckInDate for every slot set whose
\* check-in date is today or earlier, whatever the other slots.
C4_Original ==
    (pc = "validate_hotel" /\ CheckInNotAfterToday) =>
        Rejected(response) /\ response.violatedSlot = "CheckInDate"

\* C4 amended: validate_hotel reports CheckInDate for every slot set whose
\* check-in date, written YYYY-MM-DD, is today or earlier and whose Location is
\* absent or a supported city, whatever Nights and RoomType.
C4_PastCheckInReported ==
    (/\ pc = "validate_hotel" /\ CheckInNotAfterToday
     /\ IsIsoForm(Val("CheckInDate"))
     /\ (Present(ReqSlots, "Location") => isvalid_city(Val("Location")))) =>
        Rejected(response) /\ response.violatedSlot = "CheckInDate"

\* The check-in date is today, and the other slots are not valid (31 nights).
C4_Witness ==
    /\ pc = "validate_hotel"
    /\ Present(ReqSlots, "CheckInDate") /\ Val("CheckInDate") = strftime(today)
    /\ Present(ReqSlots, "Location") /\ isvalid_city(Val("Location"))
    /\ Present(ReqSlots, "Nights") /\ Val("Nights") = Num(31)
    /\ Rejected(response) /\ response.violatedSlot = "CheckInDate"

\* Both dates of the turn read as dates, and the return is not after the pick up.
ReturnNotAfterPickUpTurn ==
    /\ Present(ReqSlots, "PickUpDate") /\ parse_ok(Val("PickUpDate"))
    /\ Present(ReqSlots, "ReturnDate") /\ parse_ok(Val("ReturnDate"))
    /\ parse_date(Val("ReturnDate")) <= parse_date(Val("PickUpDate"))

\* C5 as stated: validate_book_car reports ReturnDate for every slot set whose
\* return date is on or before its pick-up date, whatever the other fields.
C5_Original ==
    (pc = "validate_book_car" /\ ReturnNotAfterPickUpTurn) =>
        Rejected(response) /\ response.violatedSlot = "ReturnDate"

\* C5 amended: validate_book_car reports ReturnDate for every slot set whose
\* return date is on or before its pick-up date, provided the checks made
\* before it pass (PickUpCity absent or supported, PickUpDate written
\* YYYY-MM-DD and after today), whatever DriverAge and CarType.
C5_ReturnBeforePickUpReported ==
    (/\ pc = "validate_book_car" /\ ReturnNotAfterPickUpTurn
     /\ (Present(ReqSlots, "PickUpCity") => isvalid_city(Val("PickUpCity")))
     /\ IsIsoForm(Val("PickUpDate"))
     /\ parse_date(Val("PickUpDate")) > today) =>
        Rejected(response) /\ response.violatedSlot = "ReturnDate"

\* Return and pick up on the same day, with a driver of 17 and an unknown car type.
C5_Witness ==
    /\ pc = "validate_book_car" /\ ReturnNotAfterPickUpTurn
    /\ Val("PickUpDate") = strftime(today + 1) /\ Val("ReturnDate") = strftime(today + 1)
    /\ Present(ReqSlots, "DriverAge") /\ Val("DriverAge") = Num(17)
    /\ Present(ReqSlots, "CarType") /\ ~isvalid_car_type(Val("CarType"))
    /\ Rejected(response) /\ response.violatedSlot = "ReturnDate"

DriverIs17 == Present(ReqSlots, "DriverAge") /\ Val("DriverAge") = Num(17)

\* C6 as stated: a BookCar turn with DriverAge 17 always yields
\* ElicitSlot(DriverAge) from book_car.
C6_Original ==
    (pc = "book_car" /\ DriverIs17) => Elicits(response, "DriverAge")

\* The checks validate_book_car makes before it looks at the driver's age pass.
ChecksBeforeAgePass ==
    /\ Present(ReqSlots, "PickUpCity") => isvalid_city(Val("PickUpCity"))
    /\ Present(ReqSlots, "PickUpDate") /\ IsIsoForm(Val("PickUpDate")) /\ parse_ok(Val("PickUpDate"))
    /\ parse_date(Val("PickUpDate")) > today
    /\ Present(ReqSlots, "ReturnDate") /\ parse_ok(Val("ReturnDate"))
    /\ parse_date(Val("ReturnDate")) > parse_date(Val("PickUpDate"))
    /\ parse_date(Val("ReturnDate")) - parse_date(Val("PickUpDate")) <= 30

\* C6 amended: a BookCar turn with DriverAge 17 yields ElicitSlot(DriverAge)
\* from book_car when the invocationSource is DialogCodeHook, the
\* confirmationState is not 'Denied', and the checks the validator makes before
\* the age (city, pick-up date, return date, span) pass; whatever the CarType.
C6_Driver17Elicited ==
    (/\ pc = "book_car" /\ DriverIs17
     /\ request.invocationSource = "DialogCodeHook"
     /\ ReqIntent.confirmationState # "Denied"
     /\ ChecksBeforeAgePass) =>
        Elicits(response, "DriverAge")

C6_Witness ==
    /\ pc = "book_car" /\ DriverIs17 /\ ChecksBeforeAgePass
    /\ request.invocationSource = "DialogCodeHook"
    /\ ReqIntent.confirmationState = "Confirmed"
    /\ ~Truthy(ReqSlots, "CarType")
    /\ Elicits(response, "DriverAge")

\* C7 as stated: every invocation of lambda_handler returns one directive
\* (ElicitSlot, ConfirmIntent, Delegate or Close) or fails with an error; none
\* returns normally with no directive.
C7_DirectiveOrError ==
    pc = "lambda_handler" =>
        \/ IsRaise(response)
        \/ /\ IsDirective(response)
           /\ response.sessionState.dialogAction.type \in {"ElicitSlot", "ConfirmIntent", "Delegate", "Close"}

\* C8 as stated: dispatch on an intent name other than BookHotel and BookCar
\* fails with an error and returns no directive, for every payload.
C8_UnsupportedIntentFails ==
    (pc = "lambda_handler" /\ ReqIntent.name \notin {"BookHotel", "BookCar"}) => IsRaise(response)

\* Neither slot the dispatcher looks at has a value, and there is a context.
CarryOverTurn ==
    /\ ("Location" \in DOMAIN ReqSlots => ReqSlots["Location"] = None)
    /\ ("PickUpCity" \in DOMAIN ReqSlots => ReqSlots["PickUpCity"] = None)
    /\ Len(request.sessionState.activeContexts) > 0

CtxAttrs == request.sessionState.activeContexts[1].contextAttributes

\* The slots of the suggestion are those of the context, the return date is
\* the date Nights days after the check-in date, and the context lives 20 turns.
CarryOverSuggestion ==
    /\ Directive(response, "ConfirmIntent")
    /\ DOMAIN response.sessionState.intent.slots = {"PickUpCity", "PickUpDate", "ReturnDate"}
    /\ try_ex(response.sessionState.intent.slots["PickUpCity"]) = CtxAttrs["Location"]
    /\ try_ex(response.sessionState.intent.slots["PickUpDate"]) = CtxAttrs["CheckInDate"]
    /\ LET return_date == try_ex(response.sessionState.intent.slots["ReturnDate"])
       IN  /\ strptime_ok(return_date)
           /\ strptime_date(return_date) = parse_date(CtxAttrs["CheckInDate"]) + int(CtxAttrs["Nights"])
    /\ Len(response.sessionState.activeContexts) = 1
    /\ response.sessionState.activeContexts[1].timeToLive.turnsToLive = 20

C10_Original ==
    (pc = "book_car" /\ AllPresent(CarSlotNames)) =>
        /\ IsDirective(response)
        /\ "currentReservationPrice" \in DOMAIN response.sessionState.sessionAttributes

\* The price book_car computes for the turn.
TurnCarPrice ==
    generate_car_price(Val("PickUpCity"), get_day_difference(Val("PickUpDate"), Val("ReturnDate")),
                       safe_int(Val("DriverAge")), Val("CarType"))

\* C10 amended: on every turn in which all five fields are present and both
\* dates parse, and which the validation of a DialogCodeHook turn does not stop
\* (the invocationSource is not DialogCodeHook, or validate_book_car accepts),
\* book_car returns a directive whose session attributes hold
\* currentReservationPrice = generate_car_price of the turn, whatever the
\* confirmationState.
C10_PriceStoredPastValidation ==
    (/\ pc = "book_car" /\ AllPresent(CarSlotNames)
     /\ parse_ok(Val("PickUpDate")) /\ parse_ok(Val("ReturnDate"))
     /\ \/ request.invocationSource # "DialogCodeHook"
        \/ Accepted(validate_book_car(ReqSlots, today))) =>
        IsDirective(response) /\ HasPrice(response, TurnCarPrice)

\* A denied turn outside the dialog code hook, with a driver the validator
\* would turn away and no price in the incoming attributes.
C10_Witness ==
    /\ pc = "book_car" /\ AllPresent(CarSlotNames)
    /\ request.invocationSource # "DialogCodeHook"
    /\ ReqIntent.confirmationState = "Denied"
    /\ DriverIs17
    /\ request.sessionState.sessionAttributes = EmptyDict
    /\ Directive(response, "Delegate") /\ HasPrice(response, TurnCarPrice)

\* CheckInDate, Nights and RoomType of the turn are present and valid: a
\* YYYY-MM-DD date after today, 1 to 30 nights, one of the three room types.
HotelDateNightsRoomValid ==
    /\ Present(ReqSlots, "CheckInDate") /\ strptime_ok(Val("CheckInDate"))
    /\ strptime_date(Val("CheckInDate")) > today
    /\ Present(ReqSlots, "Nights") /\ int(Val("Nights")) >= 1 /\ int(Val("Nights")) <= 30
    /\ Present(ReqSlots, "RoomType") /\ InList(Lower(Val("RoomType")), room_types)

\* C11 as stated: validate_hotel accepts only slot sets in which Location,
\* CheckInDate, Nights and RoomType are all present and valid.
C11_Original ==
    (pc = "validate_hotel" /\ Accepted(response)) =>
        /\ HotelDateNightsRoomValid
        /\ Present(ReqSlots, "Location") /\ InList(Lower(Val("Location")), valid_cities)

\* C11 amended: validate_hotel accepts only slot sets in which CheckInDate,
\* Nights and RoomType are present and valid and Location is absent or a
\* supported city; a slot set with no Location is accepted when the other
\* three are valid.
C11_AcceptedHotelSlots ==
    (pc = "validate_hotel" /\ Accepted(response)) =>
        /\ HotelDateNightsRoomValid
        /\ Present(ReqSlots, "Location") => InList(Lower(Val("Location")), valid_cities)

\* A slot set with no Location is accepted.
C11_Witness ==
    /\ pc = "validate_hotel" /\ Accepted(response)
    /\ ~Present(ReqSlots, "Location")
    /\ HotelDateNightsRoomValid

\* book_car priced the turn: it returned Delegate or Close.
CarTurnPriced ==
    /\ pc = "book_car" /\ AllPresent(CarSlotNames)
    /\ (Directive(response, "Delegate") \/ Directive(response, "Close"))

\* The 0-based index of the car type in car_types, matched without regard to
\* case, and 0 for a type that is not in the list under that matching.
CaseInsensitiveRank(car_type) ==
    IF InList(Lower(car_type), car_types) THEN IndexOf(car_types, Lower(car_type)) ELSE 0

\* The price with the rank of the car type taken without regard to case.
CaseInsensitivePrice ==
    LET days == get_day_difference(Val("PickUpDate"), Val("ReturnDate"))
        tenths == IF int(Val("DriverAge")) < 25 THEN 11 ELSE 10
    IN  days * ((100 + LocationCost(Val("PickUpCity"), Len(Val("PickUpCity"))))
                + ((CaseInsensitiveRank(Val("CarType")) * 50) * tenths) \div 10)

\* C12 as stated: the price generate_car_price gives a turn uses the rank of
\* the car type matched case-insensitively, so it is the price of the
\* lowercase type for every letter-casing of a base car type.
C12_RankIgnoresCase ==
    CarTurnPriced =>
        /\ HasPrice(response, CaseInsensitivePrice)
        /\ HasPrice(response, generate_car_price(Val("PickUpCity"),
                                  get_day_difference(Val("PickUpDate"), Val("ReturnDate")),
                                  safe_int(Val("DriverAge")), Lower(Val("CarType"))))

\* The slot set of the turn is one a car may be booked for: every check of
\* validate_book_car passes (all five present, a supported city, dates in
\* order and in range, a driver of 18 or more, a known car type).
CarSlotsBookable ==
    /\ AllPresent(CarSlotNames)
    /\ ChecksBeforeAgePass
    /\ int(Val("DriverAge")) >= 18
    /\ InList(Lower(Val("CarType")), valid_car_types)

\* C13 as stated: book_car returns Close only for slot sets the validator
\* accepts, for every invocationSource and confirmationState.
C13_Original ==
    (pc = "book_car" /\ Directive(response, "Close")) => CarSlotsBookable

\* C13 amended: on a DialogCodeHook turn book_car returns Close only for slot
\* sets the validator accepts (all its checks pass); on a turn of another
\* invocationSource the validator is not run.
C13_CloseOnlyIfValidated ==
    (pc = "book_car" /\ Directive(response, "Close") /\ request.invocationSource = "DialogCodeHook") =>
        CarSlotsBookable /\ Accepted(validate_book_car(ReqSlots, today))

\* A DialogCodeHook turn whose slot set passes every check closes.
C13_Witness ==
    /\ pc = "book_car" /\ Directive(response, "Close")
    /\ request.invocationSource = "DialogCodeHook"
    /\ CarSlotsBookable
    /\ response.sessionState.intent.state = "Fulfilled"

====
